---- MODULE Spec2Model ----
(***************************************************************************)
(* Model of the toolchain resolution engine of bu: the tool cache           *)
(* (src/src/tool_cache.rs), the providers and the provider chain            *)
(* (src/src/toolchain.rs), the configuration (src/src/config.rs), project   *)
(* detection (src/src/detector.rs) and resolve_tool (src/src/main.rs).      *)
(* A resolution call is a sequence of steps of a process; every filesystem  *)
(* or network operation whose result the code tests with `?` has its        *)
(* failure as one of the outcomes of the step.                              *)
(***************************************************************************)
EXTENDS Integers, Sequences, FiniteSets, TLC

(* ------------------------------------------------------------------ *)
(* Bounds of the model                                                   *)
(* ------------------------------------------------------------------ *)

\* longest provider chain a call is made with
MaxChain == 2

\* calls of get_tool_path with the same arguments
MaxCalls == 2

\* statements of a bu.star
MaxStmts == 2

\* entries of a project directory
MaxEntries == 2

(* ------------------------------------------------------------------ *)
(* Values                                                                *)
(* ------------------------------------------------------------------ *)

Procs == {"p1", "p2"}

\* the (tool, version) pairs calls are made for
Requests == {<<"buck2", "v1">>, <<"bazel", "v2">>}

Platforms == {"linux", "windows"}

\* what `which` can find on the host
HostPaths == {{}, {"buck2"}, {"cargo"}, {"buck2", "cargo"}}

\* Option<T>: None is the empty set, Some(x) is {x}
None == {}

Some(x) == {x}

\* the complete artifact a source serves, and a truncated write of it
Artifact == "artifact"

Partial == "partial"

\* fs::set_permissions mode of an installed tool
ModeExec == 493

\* mode of a file as the writer created it
ModeCreated == 0

(* ------------------------------------------------------------------ *)
(* Paths, URLs, digests and errors                                       *)
(* ------------------------------------------------------------------ *)

\* ToolCache::base_dir
CacheRoot == "~/.bu/cache"

\* a PathBuf: the directories, the file name and its extension
MkPath(dirs, name, ext) == [dirs |-> dirs, name |-> name, ext |-> ext]

NoPath == MkPath(<<>>, "", "")

\* a version string a version file can hold that is an absolute path
AbsoluteVersion == "/abs"

\* Path::is_absolute, for the components the model joins
is_absolute(component) == component = AbsoluteVersion

\* PathBuf::join on a sequence of components: an absolute component replaces
\* the path it is joined to
join(components, component) ==
    IF is_absolute(component) THEN <<component>> ELSE Append(components, component)

\* PathBuf::set_extension on the file name of a path; the tool names
\* ProjectType::tool_name gives have no extension of their own to replace
set_extension(path, extension) == [path EXCEPT !.ext = extension]

\* ToolCache::get_tool_path
get_tool_path(plat, tool_name, version) ==
    LET joined == join(join(join(<<CacheRoot>>, tool_name), version), tool_name)
        path == MkPath(SubSeq(joined, 1, Len(joined) - 1), joined[Len(joined)], "")
    IN  IF plat = "windows" THEN set_extension(path, "exe") ELSE path

\* the path `which` reports for a command found on the host
WhichPath(cmd) == MkPath(<<"/usr/bin">>, cmd, "")

\* which::which
which(path_env, cmd) == IF cmd \in path_env THEN Some(WhichPath(cmd)) ELSE None

\* URL templates are sequences of tokens; a placeholder is one token
HttpTemplate == <<"https://", "example/", "{platform}", "/buck2-", "{version}">>

ZstTemplate == <<"https://", "example/", "{platform}", "/buck2-", "{version}", ".zst">>

FileTemplate == <<"file://", "/opt/tools/", "{version}", "/buck2">>

\* str::replace on tokens
Replace(s, from, to) == [i \in 1..Len(s) |-> IF s[i] = from THEN to ELSE s[i]]

\* str::starts_with
StartsWith(s, prefix) == Len(s) > 0 /\ s[1] = prefix

\* str::ends_with
EndsWith(s, suffix) == Len(s) > 0 /\ s[Len(s)] = suffix

\* the platform identifier UrlProvider::resolve_url selects
PlatformId(plat) ==
    IF plat = "macos-aarch64" THEN "aarch64-apple-darwin"
    ELSE IF plat = "macos" THEN "x86_64-apple-darwin"
    ELSE IF plat = "windows" THEN "x86_64-pc-windows-msvc"
    ELSE "x86_64-unknown-linux-musl"

\* UrlProvider::resolve_url
resolve_url(url_template, version, plat) ==
    Replace(Replace(url_template, "{version}", version), "{platform}", PlatformId(plat))

\* hex::encode writes lower-case digits
HexDigits == <<"0", "1", "2", "3", "4", "5", "6", "7", "8", "9", "a", "b", "c", "d", "e", "f">>

HexEncode(nibbles) == [i \in 1..Len(nibbles) |-> HexDigits[nibbles[i] + 1]]

\* Sha256 of a file's content, as nibbles (two of them stand for the 64)
Sha256(content) == IF content = Artifact THEN <<10, 11>> ELSE <<1, 14>>

\* the digests a definition declares: the artifact's in lower case, the same in
\* upper case, and one that is the digest of no content
LowerDigest == <<"a", "b">>

UpperDigest == <<"A", "B">>

WrongDigest == <<"d", "e">>

Digests == {None, Some(LowerDigest), Some(UpperDigest), Some(WrongDigest)}

\* char::to_ascii_lowercase on one hex digit
ToLowerChar(c) ==
    IF c = "A" THEN "a" ELSE IF c = "B" THEN "b" ELSE IF c = "C" THEN "c"
    ELSE IF c = "D" THEN "d" ELSE IF c = "E" THEN "e" ELSE IF c = "F" THEN "f" ELSE c

ToLower(s) == [i \in 1..Len(s) |-> ToLowerChar(s[i])]

\* equality of two hex strings up to letter case
EqIgnoreCase(a, b) == ToLower(a) = ToLower(b)

\* ToolError
NoError == [kind |-> "", strategy |-> "", msg |-> <<>>]

NotFound(tool) == [kind |-> "NotFound", strategy |-> "", msg |-> <<tool>>]

StrategyFailure(strategy, msg) == [kind |-> "StrategyFailure", strategy |-> strategy, msg |-> msg]

\* Result<PathBuf, ToolError>
Ok(path) == [ok |-> TRUE, path |-> path, err |-> NoError]

Err(e) == [ok |-> FALSE, path |-> NoPath, err |-> e]

NoResult == [ok |-> FALSE, path |-> NoPath, err |-> NoError]

\* io::Result<()> of a writer: the message of the io::Error, <<>> for Ok(())
IoOk == [ok |-> TRUE, msg |-> <<>>]

IoErr(msg) == [ok |-> FALSE, msg |-> msg]

\* an operating-system error (ENOENT, EACCES, ENOSPC, a transport error ...)
OsError == <<"os error">>

OfflineMsg == <<"Offline mode: cannot download from network">>

DownloadFailedMsg == <<"Download failed: ", "404">>

CargoNotFoundMsg == <<"Cargo not found">>

CargoInstallFailedMsg == <<"Cargo install failed">>

BinaryNotFoundMsg(bin_name) == <<"Binary ", bin_name, " not found after build">>

ChecksumMsg(expected_hash, hash) ==
    <<"Checksum mismatch", ": expected ">> \o expected_hash \o <<", got ">> \o hash

\* str::contains of a fragment that is one token of the message
Contains(msg, fragment) == \E i \in 1..Len(msg) : msg[i] = fragment

(* ------------------------------------------------------------------ *)
(* Providers and chains                                                  *)
(* ------------------------------------------------------------------ *)

HostProvider ==
    [kind |-> "host", url_template |-> <<>>, sha256 |-> None, git_url |-> "", bin_name |-> ""]

UrlProvider(url_template, sha256) ==
    [kind |-> "url", url_template |-> url_template, sha256 |-> sha256,
     git_url |-> "", bin_name |-> ""]

CargoBuildProvider(git_url, bin_name) ==
    [kind |-> "source", url_template |-> <<>>, sha256 |-> None,
     git_url |-> git_url, bin_name |-> bin_name]

GitUrl == "https://github.com/facebook/buck2"

\* the strategy names a definition lists; "mirror" is a name the code does not know
StrategyNames == {"host", "url", "source", "mirror"}

\* the url_template and sha256 of a definition: none, a download with each of
\* the digests, a compressed download and a local file
UrlSettings ==
    {<<None, None>>, <<Some(ZstTemplate), None>>, <<Some(FileTemplate), None>>}
        \cup {<<Some(HttpTemplate), d>> : d \in Digests}

\* ToolDefinition: the fields get_tool_provider reads
ToolDefinitions ==
    {[url_template |-> u[1], sha256 |-> u[2], git_url |-> g, strategies |-> st] :
        u \in UrlSettings, g \in {None, Some(GitUrl)},
        st \in UNION {[1..n -> StrategyNames] : n \in 0..MaxChain}}

\* one arm of the match in Config::get_tool_provider: the providers pushed for
\* one strategy name
PushedFor(def, tool_name, strategy) ==
    IF strategy = "host" THEN <<HostProvider>>
    ELSE IF strategy = "url"
      THEN IF def.url_template # None
             THEN <<UrlProvider(CHOOSE template \in def.url_template : TRUE, def.sha256)>>
             ELSE <<>>
    ELSE IF strategy = "source"
      THEN IF def.git_url # None
             THEN <<CargoBuildProvider(CHOOSE git \in def.git_url : TRUE, tool_name)>>
             ELSE <<>>
    ELSE <<>>

\* the loop pushing the providers in front of those pushed before
RECURSIVE PushedUpToReversed(_, _, _)
PushedUpToReversed(def, tool_name, n) ==
    IF n = 0 THEN <<>>
    ELSE PushedFor(def, tool_name, def.strategies[n]) \o PushedUpToReversed(def, tool_name, n - 1)

\* the loop of Config::get_tool_provider over the first n strategies
RECURSIVE PushedUpTo(_, _, _)
PushedUpTo(def, tool_name, n) ==
    IF n = 0 THEN <<>>
    ELSE PushedUpTo(def, tool_name, n - 1) \o PushedFor(def, tool_name, def.strategies[n])

\* get_tool_provider answering None when no provider was pushed
get_tool_provider_none_if_empty(found, tool_name) ==
    IF found = None THEN None
    ELSE LET def == CHOOSE d \in found : TRUE
             providers == PushedUpTo(def, tool_name, Len(def.strategies))
         IN  IF providers = <<>> THEN None ELSE Some(providers)

\* Config::get_tool_provider, given self.tools.get(tool_name): None without a
\* definition, else the chain of the providers of its strategies
get_tool_provider(found, tool_name) ==
    IF found = None THEN None
    ELSE LET def == CHOOSE d \in found : TRUE
         IN  Some(PushedUpTo(def, tool_name, Len(def.strategies)))

\* get_provider falling back to a chain of no provider
get_provider_no_fallback(found, tool_name) ==
    LET provider == get_tool_provider(found, tool_name)
    IN  IF provider # None THEN CHOOSE chain \in provider : TRUE ELSE <<>>

\* get_provider: the chain of the definition, or HostProvider alone
get_provider(found, tool_name) ==
    LET provider == get_tool_provider(found, tool_name)
    IN  IF provider # None THEN CHOOSE chain \in provider : TRUE ELSE <<HostProvider>>

\* the chains resolve_tool can call for a tool
Chains(tool_name) ==
    {get_provider(found, tool_name) : found \in {None} \cup {Some(d) : d \in ToolDefinitions}}

\* the strategy name a provider's failures carry
StrategyName(provider) ==
    IF provider.kind = "url" THEN "UrlProvider" ELSE "CargoBuildProvider"

(* ------------------------------------------------------------------ *)
(* bu.star: the statements of a configuration and the Config they build  *)
(* ------------------------------------------------------------------ *)

\* a Starlark value passed as `strategies`: a list of strings, or a string
ListValue(items) == [type |-> "list", items |-> items]

StringValue == [type |-> "string", items |-> <<>>]

\* the url_template, sha256 and git_url arguments of a register_tool call
RegisterSettings ==
    {<<None, None, None>>, <<Some(HttpTemplate), Some(LowerDigest), None>>,
     <<None, None, Some(GitUrl)>>}

\* the strategies argument of a register_tool call
RegisterStrategies ==
    {None, Some(ListValue(<<"url", "host">>)), Some(ListValue(<<"source", "mirror">>)),
     Some(ListValue(<<"url">>)), Some(ListValue(<<>>)), Some(StringValue)}

\* bu.register_tool(name = .., version = .., ..) statements
RegisterCalls ==
    {[kind |-> "register_tool", name |-> name, version |-> "2024-01-01",
      url_template |-> u[1], sha256 |-> u[2], git_url |-> u[3], strategies |-> st] :
        name \in {"buck2", "bazel"}, u \in RegisterSettings, st \in RegisterStrategies}

\* a statement the parser rejects, and one whose evaluation fails
SyntaxError == [kind |-> "syntax error"]

EvalError == [kind |-> "eval error"]

Statements == RegisterCalls \cup {SyntaxError, EvalError}

\* the contents bu.star can have: up to MaxStmts statements
Scripts == UNION {[1..n -> Statements] : n \in 0..MaxStmts}

\* Config::default().tools, HashMap::insert and HashMap::get
NoTools == <<>>

\* an insert that keeps the definition a name already has
insert_if_absent(tools, name, def) ==
    [n \in DOMAIN tools \cup {name} |-> IF n \in DOMAIN tools THEN tools[n] ELSE def]

insert(tools, name, def) ==
    [n \in DOMAIN tools \cup {name} |-> IF n = name THEN def ELSE tools[n]]

get(tools, name) == IF name \in DOMAIN tools THEN Some(tools[name]) ELSE None

\* strategies_vec of register_tool: the items of the list, the default without
\* the argument, nothing when the value is not a list
strategies_vec(strategies) ==
    IF strategies = None THEN Some(<<"host", "url">>)
    ELSE LET v == CHOOSE x \in strategies : TRUE
         IN  IF v.type = "list" THEN Some(v.items) ELSE None

\* the ToolDefinition register_tool builds from its arguments
ToolDefinition(call, strategies) ==
    [name |-> call.name, version |-> call.version, url_template |-> call.url_template,
     sha256 |-> call.sha256, git_url |-> call.git_url, strategies |-> strategies]

\* Result<Config> of load_config
LoadOk(tools) == [ok |-> TRUE, tools |-> tools, err |-> <<>>]

LoadErr(msg) == [ok |-> FALSE, tools |-> NoTools, err |-> msg]

NoLoad == [ok |-> FALSE, tools |-> NoTools, err |-> <<>>]

\* the errors of config::load_config, and the context main.rs gives them
ParseErrorMsg == <<"parse error">>

NotAListMsg == <<"strategies must be a list of strings">>

EvalErrorMsg == <<"eval error">>

ReadErrorMsg == <<"Failed to read config file">>

ConfigContext == <<"Failed to parse bu.star">>

(* ------------------------------------------------------------------ *)
(* detect_project_type                                                   *)
(* ------------------------------------------------------------------ *)

\* the names of the entries a project directory can have: a name is the
\* sequence of its stem and its suffix, or of the whole name
MarkerNames ==
    {".buckconfig", "BUCK", "WORKSPACE", "WORKSPACE.bazel", "MODULE.bazel", "Cargo.toml",
     "go.mod", "build.zig", "pom.xml", "build.gradle", "build.gradle.kts", "bun.lockb",
     "pnpm-lock.yaml", "yarn.lock", "deno.json", "deno.jsonc", "uv.lock", "poetry.lock",
     "requirements.txt", "pyproject.toml", "Package.swift", "Gemfile", "mix.exs",
     "composer.json", "package.json", "justfile", ".justfile", "CMakeLists.txt",
     "Makefile", "makefile", "README.md"}

DotnetSuffixes == {".sln", ".csproj", ".fsproj", ".vbproj"}

EntryNames == {<<name>> : name \in MarkerNames} \cup {<<"app", suffix>> : suffix \in DotnetSuffixes}

\* the directories of up to n entries
RECURSIVE DirectoriesUpTo(_)
DirectoriesUpTo(n) ==
    IF n = 0 THEN {{}}
    ELSE LET smaller == DirectoriesUpTo(n - 1)
         IN  smaller \cup {entries \cup {name} : entries \in smaller, name \in EntryNames}

\* the directories detect_project_type is called on: up to MaxEntries entries
Directories == DirectoriesUpTo(MaxEntries)

\* path.join(name).exists()
present(entries, name) == <<name>> \in entries

\* has_dotnet_project: an entry of the directory ends with one of the suffixes
has_dotnet_project(entries) ==
    \E name \in entries :
        \/ EndsWith(name, ".sln")
        \/ EndsWith(name, ".csproj")
        \/ EndsWith(name, ".fsproj")
        \/ EndsWith(name, ".vbproj")

\* detect_project_type: the tests of the function, in its order
detect_project_type(entries) ==
    IF present(entries, ".buckconfig") \/ present(entries, "BUCK") THEN "Buck2"
    ELSE IF \/ present(entries, "WORKSPACE")
            \/ present(entries, "WORKSPACE.bazel")
            \/ present(entries, "MODULE.bazel") THEN "Bazel"
    ELSE IF present(entries, "Cargo.toml") THEN "Cargo"
    ELSE IF present(entries, "go.mod") THEN "Go"
    ELSE IF present(entries, "build.zig") THEN "Zig"
    ELSE IF present(entries, "pom.xml") THEN "Maven"
    ELSE IF present(entries, "build.gradle") \/ present(entries, "build.gradle.kts")
      THEN "Gradle"
    ELSE IF present(entries, "bun.lockb") THEN "Bun"
    ELSE IF present(entries, "pnpm-lock.yaml") THEN "Pnpm"
    ELSE IF present(entries, "yarn.lock") THEN "Yarn"
    ELSE IF present(entries, "deno.json") \/ present(entries, "deno.jsonc") THEN "Deno"
    ELSE IF present(entries, "uv.lock") THEN "Uv"
    ELSE IF present(entries, "poetry.lock") THEN "Poetry"
    ELSE IF present(entries, "requirements.txt") THEN "Pip"
    ELSE IF present(entries, "pyproject.toml") THEN "Uv"
    ELSE IF has_dotnet_project(entries) THEN "Dotnet"
    ELSE IF present(entries, "Package.swift") THEN "Swift"
    ELSE IF present(entries, "Gemfile") THEN "Bundler"
    ELSE IF present(entries, "mix.exs") THEN "Mix"
    ELSE IF present(entries, "composer.json") THEN "Composer"
    ELSE IF present(entries, "package.json") THEN "Npm"
    ELSE IF present(entries, "justfile") \/ present(entries, ".justfile") THEN "Just"
    ELSE IF present(entries, "CMakeLists.txt") THEN "Cmake"
    ELSE IF present(entries, "Makefile") \/ present(entries, "makefile") THEN "Make"
    ELSE "Unknown"

(* ------------------------------------------------------------------ *)
(* State                                                                 *)
(* ------------------------------------------------------------------ *)

VARIABLES
    platform,    \* the target the program was built for
    path_env,    \* the commands `which` finds
    fs,          \* the cache directory: per tool path, its parent directory and file
    pc,          \* per process: where its resolution call is
    req,         \* per process: tool, version, context.offline and the chain
    idx,         \* ChainProvider::provide: position of the loop
    last_error,  \* ChainProvider::provide: last_error
    last_from,   \* the provider last_error came from, 0 for the initial value
    pres,        \* what the provider just invoked returned
    wres,        \* what the writer passed to install returned
    res,         \* what ChainProvider::provide returned
    invoked,     \* positions of the providers invoked in this call, in order
    attempts,    \* the provider invocations that returned, in order
    ops,         \* the operations of the invocation in progress, in order
    cached,      \* is_installed when the invocation in progress began
    query,       \* get_tool_path: the arguments of the call, if one was made
    answer,      \* get_tool_path: what the calls returned, in order
    content,     \* per process: the statements of the bu.star it read, if any
    capture,     \* per thread: CONFIG_CAPTURE, the Rc it holds if any
    rc,          \* per process: the tools of the Config behind the Rc its load made
    pos,         \* per process: the statement eval_module is at
    eval_res,    \* per process: `res` of load_config, the error of eval_module if any
    loaded,      \* per process: what load_config returned to resolve_tool
    definition,  \* per process: config.tools.get(tool_name) of get_provider
    resolved,    \* per process: what resolve_tool returned
    cwd,         \* detect_project_type: the entries of the directory it is called on
    detected     \* detect_project_type: what it returned, if it was called

\* the state of configuration loading
config_vars == <<content, capture, rc, pos, eval_res, loaded, definition>>

vars == <<platform, path_env, fs, pc, req, idx, last_error, last_from, pres, wres, res,
          invoked, attempts, ops, cached, query, answer, config_vars, resolved,
          cwd, detected>>

\* what no step of a resolution call changes
outside == <<platform, path_env, query, answer, cwd, detected>>

\* what no step of ChainProvider::provide changes
env == <<outside, config_vars, resolved>>

NoFile == [dir |-> FALSE, file |-> "absent", mode |-> ModeCreated]

\* the tool paths of the cache
CachePaths(plat) == {get_tool_path(plat, r[1], r[2]) : r \in Requests}

\* Path::exists
exists(f, path) == path \in DOMAIN f /\ f[path].file # "absent"

\* ToolCache::is_installed
is_installed(f, plat, tool_name, version) ==
    LET path == get_tool_path(plat, tool_name, version)
        installed == exists(f, path)
    IN  installed

NoRequest == [tool |-> "", version |-> "", offline |-> FALSE, chain |-> <<>>]

\* the provider the loop is at, and the path of the (tool, version) of the call
Cur(p) == req[p].chain[idx[p]]

ToolPath(p) == get_tool_path(platform, req[p].tool, req[p].version)

Installed(p) == is_installed(fs, platform, req[p].tool, req[p].version)

\* the file at dest_path after File::create or fs::copy created or truncated it
Created(p) == [fs EXCEPT ![ToolPath(p)] = [@ EXCEPT !.file = Partial]]

\* no call of get_tool_path was made
NoQuery ==
    /\ query = None
    /\ answer = <<>>

\* Result<ToolResolution> of resolve_tool: the resolution, or the error with
\* the context it was given and the ToolError it wraps, if any
Resolution(tool_name, version, tool_path) ==
    [ok |-> TRUE, tool_name |-> tool_name, version |-> version, tool_path |-> tool_path,
     context |-> <<>>, source |-> NoError]

ResolveErr(context, source) ==
    [ok |-> FALSE, tool_name |-> "", version |-> "", tool_path |-> NoPath,
     context |-> context, source |-> source]

NoResolution == ResolveErr(<<>>, NoError)

\* the context resolve_tool gives the error of provide
ProvideContext(tool_name, version) ==
    <<"Failed to provide tool '", tool_name, "' version '", version, "'">>

\* detect_project_type was not called
NoDetection ==
    /\ cwd = {}
    /\ detected = None

\* no configuration is being loaded
NoConfig ==
    /\ content = [p \in Procs |-> None]
    /\ capture = [p \in Procs |-> None]
    /\ rc = [p \in Procs |-> NoTools]
    /\ pos = [p \in Procs |-> 0]
    /\ eval_res = [p \in Procs |-> <<>>]
    /\ loaded = [p \in Procs |-> NoLoad]
    /\ definition = [p \in Procs |-> None]

\* no resolution call is in progress and the cache is empty
Idle ==
    /\ resolved = [p \in Procs |-> NoResolution]
    /\ fs = [path \in CachePaths(platform) |-> NoFile]
    /\ pc = [p \in Procs |-> "idle"]
    /\ req = [p \in Procs |-> NoRequest]
    /\ idx = [p \in Procs |-> 0]
    /\ last_error = [p \in Procs |-> NoError]
    /\ last_from = [p \in Procs |-> 0]
    /\ pres = [p \in Procs |-> NoResult]
    /\ wres = [p \in Procs |-> IoOk]
    /\ res = [p \in Procs |-> NoResult]
    /\ invoked = [p \in Procs |-> <<>>]
    /\ attempts = [p \in Procs |-> <<>>]
    /\ ops = [p \in Procs |-> <<>>]
    /\ cached = [p \in Procs |-> FALSE]

Init ==
    /\ platform \in Platforms
    /\ path_env \in HostPaths
    /\ Idle
    /\ NoQuery
    /\ NoConfig
    /\ NoDetection

(* ------------------------------------------------------------------ *)
(* ChainProvider::provide                                                *)
(* ------------------------------------------------------------------ *)

\* Call with the tool name left out of the initial NotFound
CallNoToolName(p) ==
    /\ pc[p] = "idle"
    /\ \E r \in Requests, offline \in BOOLEAN : \E chain \in Chains(r[1]) :
          req' = [req EXCEPT ![p] =
                    [tool |-> r[1], version |-> r[2], offline |-> offline, chain |-> chain]]
    /\ last_error' = [last_error EXCEPT ![p] = NotFound("")]
    /\ last_from' = [last_from EXCEPT ![p] = 0]
    /\ idx' = [idx EXCEPT ![p] = 1]
    /\ pc' = [pc EXCEPT ![p] = "loop"]
    /\ resolved' = [resolved EXCEPT ![p] = NoResolution]
    /\ UNCHANGED <<outside, config_vars, fs, pres, wres, res, invoked, attempts, ops, cached>>

\* resolve_tool calls provide on the chain get_provider built for the tool;
\* last_error starts as NotFound(tool)
Call(p) ==
    /\ pc[p] = "idle"
    /\ \E r \in Requests, offline \in BOOLEAN : \E chain \in Chains(r[1]) :
          req' = [req EXCEPT ![p] =
                    [tool |-> r[1], version |-> r[2], offline |-> offline, chain |-> chain]]
    /\ last_error' = [last_error EXCEPT ![p] = NotFound(req'[p].tool)]
    /\ last_from' = [last_from EXCEPT ![p] = 0]
    /\ idx' = [idx EXCEPT ![p] = 1]
    /\ pc' = [pc EXCEPT ![p] = "loop"]
    /\ resolved' = [resolved EXCEPT ![p] = NoResolution]
    /\ UNCHANGED <<outside, config_vars, fs, pres, wres, res, invoked, attempts, ops, cached>>

\* the head of `for provider in &self.providers`: the next provider is invoked,
\* or the loop is over and Err(last_error) is returned
ChainNext(p) ==
    /\ pc[p] = "loop"
    /\ IF idx[p] <= Len(req[p].chain)
         THEN /\ invoked' = [invoked EXCEPT ![p] = Append(@, idx[p])]
              /\ cached' = [cached EXCEPT ![p] = Installed(p)]
              /\ ops' = [ops EXCEPT ![p] = <<>>]
              /\ pc' = [pc EXCEPT ![p] = "provide"]
              /\ res' = res
         ELSE /\ res' = [res EXCEPT ![p] = Err(last_error[p])]
              /\ pc' = [pc EXCEPT ![p] = "done"]
              /\ UNCHANGED <<invoked, cached, ops>>
    /\ UNCHANGED <<env, fs, req, idx, last_error, last_from, pres, wres, attempts>>

\* what the match records of an invocation that returned
Attempted(p) ==
    attempts' = [attempts EXCEPT ![p] =
        Append(@, [idx |-> idx[p], cached |-> cached[p], ops |-> ops[p], res |-> pres[p]])]

\* ChainRet returning a success only of the last provider
ChainRetNoShortCircuit(p) ==
    /\ pc[p] = "ret"
    /\ Attempted(p)
    /\ IF pres[p].ok /\ idx[p] = Len(req[p].chain)
         THEN /\ res' = [res EXCEPT ![p] = Ok(pres[p].path)]
              /\ pc' = [pc EXCEPT ![p] = "done"]
              /\ UNCHANGED <<idx, last_error, last_from>>
         ELSE /\ last_error' = [last_error EXCEPT ![p] = pres[p].err]
              /\ last_from' = [last_from EXCEPT ![p] = idx[p]]
              /\ idx' = [idx EXCEPT ![p] = @ + 1]
              /\ pc' = [pc EXCEPT ![p] = "loop"]
              /\ res' = res
    /\ UNCHANGED <<env, fs, req, pres, wres, invoked, ops, cached>>

\* ChainRet keeping the first failure instead of the most recent one
ChainRetFirstError(p) ==
    /\ pc[p] = "ret"
    /\ Attempted(p)
    /\ IF pres[p].ok
         THEN /\ res' = [res EXCEPT ![p] = Ok(pres[p].path)]
              /\ pc' = [pc EXCEPT ![p] = "done"]
              /\ UNCHANGED <<idx, last_error, last_from>>
         ELSE /\ last_error' = [last_error EXCEPT ![p] =
                                    IF last_from[p] = 0 THEN pres[p].err ELSE @]
              /\ last_from' = [last_from EXCEPT ![p] = IF @ = 0 THEN idx[p] ELSE @]
              /\ idx' = [idx EXCEPT ![p] = @ + 1]
              /\ pc' = [pc EXCEPT ![p] = "loop"]
              /\ res' = res
    /\ UNCHANGED <<env, fs, req, pres, wres, invoked, ops, cached>>

\* ChainRet trying the provider that failed once more before moving on
ChainRetRetry(p) ==
    /\ pc[p] = "ret"
    /\ Attempted(p)
    /\ IF pres[p].ok
         THEN /\ res' = [res EXCEPT ![p] = Ok(pres[p].path)]
              /\ pc' = [pc EXCEPT ![p] = "done"]
              /\ UNCHANGED <<idx, last_error, last_from>>
         ELSE /\ last_error' = [last_error EXCEPT ![p] = pres[p].err]
              /\ last_from' = [last_from EXCEPT ![p] = idx[p]]
              /\ idx' = [idx EXCEPT ![p] =
                            IF Len(attempts[p]) < idx[p] THEN @ ELSE @ + 1]
              /\ pc' = [pc EXCEPT ![p] = "loop"]
              /\ res' = res
    /\ UNCHANGED <<env, fs, req, pres, wres, invoked, ops, cached>>

\* ChainRet returning the first failure, without invoking the providers after it
ChainRetStopsOnFailure(p) ==
    /\ pc[p] = "ret"
    /\ Attempted(p)
    /\ res' = [res EXCEPT ![p] = pres[p]]
    /\ pc' = [pc EXCEPT ![p] = "done"]
    /\ UNCHANGED <<idx, last_error, last_from>>
    /\ UNCHANGED <<env, fs, req, pres, wres, invoked, ops, cached>>

\* the match on what the provider returned: Ok returns, Err is kept and the loop goes on
ChainRet(p) ==
    /\ pc[p] = "ret"
    /\ Attempted(p)
    /\ IF pres[p].ok
         THEN /\ res' = [res EXCEPT ![p] = Ok(pres[p].path)]
              /\ pc' = [pc EXCEPT ![p] = "done"]
              /\ UNCHANGED <<idx, last_error, last_from>>
         ELSE /\ last_error' = [last_error EXCEPT ![p] = pres[p].err]
              /\ last_from' = [last_from EXCEPT ![p] = idx[p]]
              /\ idx' = [idx EXCEPT ![p] = @ + 1]
              /\ pc' = [pc EXCEPT ![p] = "loop"]
              /\ res' = res
    /\ UNCHANGED <<env, fs, req, pres, wres, invoked, ops, cached>>

\* resolve_tool leaving the version out of the context of the error
ReturnNoVersion(p) ==
    /\ pc[p] = "done"
    /\ resolved' = [resolved EXCEPT ![p] =
          IF res[p].ok THEN Resolution(req[p].tool, req[p].version, res[p].path)
          ELSE ResolveErr(ProvideContext(req[p].tool, ""), res[p].err)]
    /\ pc' = [pc EXCEPT ![p] = "idle"]
    /\ req' = [req EXCEPT ![p] = NoRequest]
    /\ idx' = [idx EXCEPT ![p] = 0]
    /\ last_error' = [last_error EXCEPT ![p] = NoError]
    /\ last_from' = [last_from EXCEPT ![p] = 0]
    /\ pres' = [pres EXCEPT ![p] = NoResult]
    /\ wres' = [wres EXCEPT ![p] = IoOk]
    /\ res' = [res EXCEPT ![p] = NoResult]
    /\ invoked' = [invoked EXCEPT ![p] = <<>>]
    /\ attempts' = [attempts EXCEPT ![p] = <<>>]
    /\ ops' = [ops EXCEPT ![p] = <<>>]
    /\ cached' = [cached EXCEPT ![p] = FALSE]
    /\ UNCHANGED <<outside, config_vars, fs>>

\* resolve_tool returns: the path provide returned, or its error in the
\* context naming the tool and the version; the process can make another call
Return(p) ==
    /\ pc[p] = "done"
    /\ resolved' = [resolved EXCEPT ![p] =
          IF res[p].ok THEN Resolution(req[p].tool, req[p].version, res[p].path)
          ELSE ResolveErr(ProvideContext(req[p].tool, req[p].version), res[p].err)]
    /\ pc' = [pc EXCEPT ![p] = "idle"]
    /\ req' = [req EXCEPT ![p] = NoRequest]
    /\ idx' = [idx EXCEPT ![p] = 0]
    /\ last_error' = [last_error EXCEPT ![p] = NoError]
    /\ last_from' = [last_from EXCEPT ![p] = 0]
    /\ pres' = [pres EXCEPT ![p] = NoResult]
    /\ wres' = [wres EXCEPT ![p] = IoOk]
    /\ res' = [res EXCEPT ![p] = NoResult]
    /\ invoked' = [invoked EXCEPT ![p] = <<>>]
    /\ attempts' = [attempts EXCEPT ![p] = <<>>]
    /\ ops' = [ops EXCEPT ![p] = <<>>]
    /\ cached' = [cached EXCEPT ![p] = FALSE]
    /\ UNCHANGED <<outside, config_vars, fs>>

(* ------------------------------------------------------------------ *)
(* The providers                                                         *)
(* ------------------------------------------------------------------ *)

\* a provider returns r to the chain
Returns(p, r) ==
    /\ pres' = [pres EXCEPT ![p] = r]
    /\ pc' = [pc EXCEPT ![p] = "ret"]

\* HostProvide answering from the cache when the tool is installed there
HostProvideChecksCache(p) ==
    /\ pc[p] = "provide"
    /\ Cur(p).kind = "host"
    /\ LET found == which(path_env, req[p].tool)
       IN  IF Installed(p)
             THEN Returns(p, Ok(ToolPath(p)))
             ELSE IF found # None
                    THEN \E path \in found : Returns(p, Ok(path))
                    ELSE Returns(p, Err(NotFound(req[p].tool)))
    /\ UNCHANGED <<env, fs, req, idx, last_error, last_from, wres, res, invoked, attempts,
                   ops, cached>>

\* HostProvider::provide
HostProvide(p) ==
    /\ pc[p] = "provide"
    /\ Cur(p).kind = "host"
    /\ LET found == which(path_env, req[p].tool)
       IN  IF found # None
             THEN \E path \in found : Returns(p, Ok(path))
             ELSE Returns(p, Err(NotFound(req[p].tool)))
    /\ UNCHANGED <<env, fs, req, idx, last_error, last_from, wres, res, invoked, attempts,
                   ops, cached>>

\* UrlProvide testing the offline flag before the cache
UrlProvideOfflineFirst(p) ==
    /\ pc[p] = "provide"
    /\ Cur(p).kind = "url"
    /\ LET url == resolve_url(Cur(p).url_template, req[p].version, platform)
       IN  IF req[p].offline /\ ~StartsWith(url, "file://")
             THEN Returns(p, Err(StrategyFailure("UrlProvider", OfflineMsg)))
             ELSE IF Installed(p)
                    THEN Returns(p, Ok(ToolPath(p)))
                    ELSE /\ pc' = [pc EXCEPT ![p] = "install"]
                         /\ pres' = pres
    /\ UNCHANGED <<env, fs, req, idx, last_error, last_from, wres, res, invoked, attempts,
                   ops, cached>>

\* UrlProvide without the offline check
UrlProvideNoOfflineCheck(p) ==
    /\ pc[p] = "provide"
    /\ Cur(p).kind = "url"
    /\ IF Installed(p)
         THEN Returns(p, Ok(ToolPath(p)))
         ELSE /\ pc' = [pc EXCEPT ![p] = "install"]
              /\ pres' = pres
    /\ UNCHANGED <<env, fs, req, idx, last_error, last_from, wres, res, invoked, attempts,
                   ops, cached>>

\* UrlProvide creating the parent directory before the offline check
UrlProvideOfflineCreatesDir(p) ==
    /\ pc[p] = "provide"
    /\ Cur(p).kind = "url"
    /\ LET url == resolve_url(Cur(p).url_template, req[p].version, platform)
       IN  IF Installed(p)
             THEN /\ Returns(p, Ok(ToolPath(p)))
                  /\ fs' = fs
             ELSE /\ fs' = [fs EXCEPT ![ToolPath(p)] = [@ EXCEPT !.dir = TRUE]]
                  /\ IF req[p].offline /\ ~StartsWith(url, "file://")
                       THEN Returns(p, Err(StrategyFailure("UrlProvider", OfflineMsg)))
                       ELSE /\ pc' = [pc EXCEPT ![p] = "install"]
                            /\ pres' = pres
    /\ UNCHANGED <<env, req, idx, last_error, last_from, wres, res, invoked, attempts,
                   ops, cached>>

\* UrlProvide holding a lock on the cache entry: it waits while another process
\* is inside install for the same path
UrlProvideLocked(p) ==
    /\ pc[p] = "provide"
    /\ Cur(p).kind = "url"
    /\ \A q \in Procs \ {p} :
          pc[q] \in {"install", "writer", "copying", "verify", "written"} =>
             ToolPath(q) # ToolPath(p)
    /\ LET url == resolve_url(Cur(p).url_template, req[p].version, platform)
       IN  IF Installed(p)
             THEN Returns(p, Ok(ToolPath(p)))
             ELSE IF req[p].offline /\ ~StartsWith(url, "file://")
                    THEN Returns(p, Err(StrategyFailure("UrlProvider", OfflineMsg)))
                    ELSE /\ pc' = [pc EXCEPT ![p] = "install"]
                         /\ pres' = pres
    /\ UNCHANGED <<env, fs, req, idx, last_error, last_from, wres, res, invoked, attempts,
                   ops, cached>>

\* UrlProvider::provide up to the call of install: the cache check, resolve_url
\* and the offline check
UrlProvide(p) ==
    /\ pc[p] = "provide"
    /\ Cur(p).kind = "url"
    /\ LET url == resolve_url(Cur(p).url_template, req[p].version, platform)
       IN  IF Installed(p)
             THEN Returns(p, Ok(ToolPath(p)))
             ELSE IF req[p].offline /\ ~StartsWith(url, "file://")
                    THEN Returns(p, Err(StrategyFailure("UrlProvider", OfflineMsg)))
                    ELSE /\ pc' = [pc EXCEPT ![p] = "install"]
                         /\ pres' = pres
    /\ UNCHANGED <<env, fs, req, idx, last_error, last_from, wres, res, invoked, attempts,
                   ops, cached>>

\* CargoBuildProvider::provide calling install without looking for cargo
CargoProvideNoWhich(p) ==
    /\ pc[p] = "provide"
    /\ Cur(p).kind = "source"
    /\ IF Installed(p)
         THEN Returns(p, Ok(ToolPath(p)))
         ELSE /\ pc' = [pc EXCEPT ![p] = "install"]
              /\ pres' = pres
    /\ UNCHANGED <<env, fs, req, idx, last_error, last_from, wres, res, invoked, attempts,
                   ops, cached>>

\* CargoBuildProvider::provide up to the call of install: the cache check and
\* which("cargo")
CargoProvide(p) ==
    /\ pc[p] = "provide"
    /\ Cur(p).kind = "source"
    /\ IF Installed(p)
         THEN Returns(p, Ok(ToolPath(p)))
         ELSE IF which(path_env, "cargo") = None
                THEN Returns(p, Err(StrategyFailure("CargoBuildProvider", CargoNotFoundMsg)))
                ELSE /\ pc' = [pc EXCEPT ![p] = "install"]
                     /\ pres' = pres
    /\ UNCHANGED <<env, fs, req, idx, last_error, last_from, wres, res, invoked, attempts,
                   ops, cached>>

(* ------------------------------------------------------------------ *)
(* ToolCache::install and the writers the providers pass to it           *)
(* ------------------------------------------------------------------ *)

Did(p, op) == ops' = [ops EXCEPT ![p] = Append(@, op)]

Did2(p, op1, op2) == ops' = [ops EXCEPT ![p] = Append(Append(@, op1), op2)]

\* InstallFails passing the io::Error on as ToolError::Io
InstallFailsIo(p, msg) == Returns(p, Err([kind |-> "Io", strategy |-> "", msg |-> msg]))

\* install returned Err(e) and the provider's map_err wrapped e.to_string()
InstallFails(p, msg) == Returns(p, Err(StrategyFailure(StrategyName(Cur(p)), msg)))

\* the writer returned: install goes on after `downloader(&tool_path)?`
WriterReturns(p, r) ==
    /\ wres' = [wres EXCEPT ![p] = r]
    /\ pc' = [pc EXCEPT ![p] = "written"]

\* install: get_tool_path and fs::create_dir_all(parent)?
Install(p) ==
    /\ pc[p] = "install"
    /\ Did(p, "create_dir_all")
    /\ \/ /\ fs' = [fs EXCEPT ![ToolPath(p)] = [@ EXCEPT !.dir = TRUE]]
          /\ pc' = [pc EXCEPT ![p] = "writer"]
          /\ pres' = pres
       \/ /\ InstallFails(p, OsError)
          /\ fs' = fs
    /\ UNCHANGED <<env, req, idx, last_error, last_from, wres, res, invoked, attempts, cached>>

\* UrlProvider's writer up to the creation of dest_path: fs::copy opens its source
\* and creates the destination; a download issues the GET, tests the status,
\* sets up the decoder of a .zst URL and creates the destination
UrlFetch(p) ==
    /\ pc[p] = "writer"
    /\ Cur(p).kind = "url"
    /\ LET url == resolve_url(Cur(p).url_template, req[p].version, platform)
       IN  IF StartsWith(url, "file://")
             THEN \/ /\ Did(p, "copy")
                     /\ WriterReturns(p, IoErr(OsError))
                     /\ fs' = fs
                  \/ /\ Did2(p, "copy", "write")
                     /\ fs' = Created(p)
                     /\ pc' = [pc EXCEPT ![p] = "copying"]
                     /\ wres' = wres
             ELSE \/ /\ Did(p, "get")
                     /\ \E msg \in {OsError, DownloadFailedMsg} : WriterReturns(p, IoErr(msg))
                     /\ fs' = fs
                  \/ /\ EndsWith(url, ".zst")
                     /\ Did2(p, "get", "decoder")
                     /\ WriterReturns(p, IoErr(OsError))
                     /\ fs' = fs
                  \/ /\ Did2(p, "get", "write")
                     /\ fs' = Created(p)
                     /\ pc' = [pc EXCEPT ![p] = "copying"]
                     /\ wres' = wres
    /\ UNCHANGED <<env, req, idx, last_error, last_from, pres, res, invoked, attempts, cached>>

\* CargoBuild creating dest_path before the build is run
CargoBuildWritesFirst(p) ==
    /\ pc[p] = "writer"
    /\ Cur(p).kind = "source"
    /\ \/ /\ Did(p, "tempdir")
          /\ WriterReturns(p, IoErr(OsError))
          /\ fs' = fs
       \/ /\ Did2(p, "tempdir", "cargo")
          /\ \E msg \in {OsError, CargoInstallFailedMsg, BinaryNotFoundMsg(Cur(p).bin_name)} :
                WriterReturns(p, IoErr(msg))
          /\ fs' = Created(p)
       \/ /\ ops' = [ops EXCEPT ![p] = @ \o <<"tempdir", "cargo", "copy">>]
          /\ WriterReturns(p, IoErr(OsError))
          /\ fs' = fs
       \/ /\ ops' = [ops EXCEPT ![p] = @ \o <<"tempdir", "cargo", "copy", "write">>]
          /\ fs' = Created(p)
          /\ pc' = [pc EXCEPT ![p] = "copying"]
          /\ wres' = wres
    /\ UNCHANGED <<env, req, idx, last_error, last_from, pres, res, invoked, attempts, cached>>

\* CargoBuildProvider's writer up to the creation of dest_path: tempdir, the
\* cargo install command, its exit status, the built binary, and fs::copy
\* opening it and creating the destination
CargoBuild(p) ==
    /\ pc[p] = "writer"
    /\ Cur(p).kind = "source"
    /\ \/ /\ Did(p, "tempdir")
          /\ WriterReturns(p, IoErr(OsError))
          /\ fs' = fs
       \/ /\ Did2(p, "tempdir", "cargo")
          /\ \E msg \in {OsError, CargoInstallFailedMsg, BinaryNotFoundMsg(Cur(p).bin_name)} :
                WriterReturns(p, IoErr(msg))
          /\ fs' = fs
       \/ /\ ops' = [ops EXCEPT ![p] = @ \o <<"tempdir", "cargo", "copy">>]
          /\ WriterReturns(p, IoErr(OsError))
          /\ fs' = fs
       \/ /\ ops' = [ops EXCEPT ![p] = @ \o <<"tempdir", "cargo", "copy", "write">>]
          /\ fs' = Created(p)
          /\ pc' = [pc EXCEPT ![p] = "copying"]
          /\ wres' = wres
    /\ UNCHANGED <<env, req, idx, last_error, last_from, pres, res, invoked, attempts, cached>>

\* WriterCopy removing the file when the copy fails
WriterCopyRemovesPartial(p) ==
    /\ pc[p] = "copying"
    /\ \/ /\ fs' = [fs EXCEPT ![ToolPath(p)] = [@ EXCEPT !.file = Artifact]]
          /\ IF Cur(p).kind = "url"
               THEN /\ pc' = [pc EXCEPT ![p] = "verify"]
                    /\ wres' = wres
               ELSE WriterReturns(p, IoOk)
       \/ /\ fs' = [fs EXCEPT ![ToolPath(p)] = [@ EXCEPT !.file = "absent"]]
          /\ WriterReturns(p, IoErr(OsError))
    /\ UNCHANGED <<env, req, idx, last_error, last_from, pres, res, invoked, attempts, ops,
                   cached>>

\* the bytes are copied into dest_path (io::copy, or the rest of fs::copy): all of
\* them, or the copy fails and the file stays as far as it was written
WriterCopy(p) ==
    /\ pc[p] = "copying"
    /\ \/ /\ fs' = [fs EXCEPT ![ToolPath(p)] = [@ EXCEPT !.file = Artifact]]
          /\ IF Cur(p).kind = "url"
               THEN /\ pc' = [pc EXCEPT ![p] = "verify"]
                    /\ wres' = wres
               ELSE WriterReturns(p, IoOk)
       \/ /\ fs' = fs
          /\ WriterReturns(p, IoErr(OsError))
    /\ UNCHANGED <<env, req, idx, last_error, last_from, pres, res, invoked, attempts, ops,
                   cached>>

\* UrlVerify computing the digest and not comparing it
UrlVerifyNoCompare(p) ==
    /\ pc[p] = "verify"
    /\ IF Cur(p).sha256 = None
         THEN /\ WriterReturns(p, IoOk)
              /\ ops' = ops
         ELSE \/ /\ Did(p, "read")
                 /\ WriterReturns(p, IoErr(OsError))
              \/ /\ Did2(p, "read", "hash")
                 /\ WriterReturns(p, IoOk)
    /\ UNCHANGED <<env, fs, req, idx, last_error, last_from, pres, res, invoked, attempts,
                   cached>>

\* UrlProvider's writer, "Verify Checksum": the file is read back, hashed and the
\* hex digest compared with the declared one
UrlVerify(p) ==
    /\ pc[p] = "verify"
    /\ IF Cur(p).sha256 = None
         THEN /\ WriterReturns(p, IoOk)
              /\ ops' = ops
         ELSE \/ /\ Did(p, "read")
                 /\ WriterReturns(p, IoErr(OsError))
              \/ /\ Did2(p, "read", "hash")
                 /\ \E expected_hash \in Cur(p).sha256 :
                       LET hash == HexEncode(Sha256(fs[ToolPath(p)].file))
                       IN  IF hash # expected_hash
                             THEN WriterReturns(p, IoErr(ChecksumMsg(expected_hash, hash)))
                             ELSE WriterReturns(p, IoOk)
    /\ UNCHANGED <<env, fs, req, idx, last_error, last_from, pres, res, invoked, attempts,
                   cached>>

\* InstallFinish removing the file a failed writer left
InstallFinishRollback(p) ==
    /\ pc[p] = "written"
    /\ IF ~wres[p].ok
         THEN /\ InstallFails(p, wres[p].msg)
              /\ fs' = [fs EXCEPT ![ToolPath(p)] = [@ EXCEPT !.file = "absent"]]
              /\ ops' = ops
         ELSE IF platform = "windows"
                THEN /\ Returns(p, Ok(ToolPath(p)))
                     /\ UNCHANGED <<fs, ops>>
                ELSE /\ Did(p, "set_permissions")
                     /\ \/ /\ exists(fs, ToolPath(p))
                           /\ fs' = [fs EXCEPT ![ToolPath(p)] = [@ EXCEPT !.mode = ModeExec]]
                           /\ Returns(p, Ok(ToolPath(p)))
                        \/ /\ fs' = fs
                           /\ InstallFails(p, OsError)
    /\ UNCHANGED <<env, req, idx, last_error, last_from, wres, res, invoked, attempts, cached>>

\* InstallFinish setting the mode before it looks at the writer's result
InstallFinishChmodFirst(p) ==
    /\ pc[p] = "written"
    /\ IF platform = "windows"
         THEN /\ IF wres[p].ok THEN Returns(p, Ok(ToolPath(p)))
                               ELSE InstallFails(p, wres[p].msg)
              /\ UNCHANGED <<fs, ops>>
         ELSE /\ Did(p, "set_permissions")
              /\ \/ /\ exists(fs, ToolPath(p))
                    /\ fs' = [fs EXCEPT ![ToolPath(p)] = [@ EXCEPT !.mode = ModeExec]]
                    /\ IF wres[p].ok THEN Returns(p, Ok(ToolPath(p)))
                                     ELSE InstallFails(p, wres[p].msg)
                 \/ /\ fs' = fs
                    /\ InstallFails(p, OsError)
    /\ UNCHANGED <<env, req, idx, last_error, last_from, wres, res, invoked, attempts, cached>>

\* install after the writer: `?` on its result, then (cfg(unix)) fs::metadata and
\* fs::set_permissions with mode 0o755, then Ok(tool_path)
InstallFinish(p) ==
    /\ pc[p] = "written"
    /\ IF ~wres[p].ok
         THEN /\ InstallFails(p, wres[p].msg)
              /\ UNCHANGED <<fs, ops>>
         ELSE IF platform = "windows"
                THEN /\ Returns(p, Ok(ToolPath(p)))
                     /\ UNCHANGED <<fs, ops>>
                ELSE /\ Did(p, "set_permissions")
                     /\ \/ /\ exists(fs, ToolPath(p))
                           /\ fs' = [fs EXCEPT ![ToolPath(p)] = [@ EXCEPT !.mode = ModeExec]]
                           /\ Returns(p, Ok(ToolPath(p)))
                        \/ /\ fs' = fs
                           /\ InstallFails(p, OsError)
    /\ UNCHANGED <<env, req, idx, last_error, last_from, wres, res, invoked, attempts, cached>>

(* ------------------------------------------------------------------ *)
(* Specifications                                                        *)
(* ------------------------------------------------------------------ *)

Step(p) ==
    \/ Call(p)
    \/ ChainNext(p)
    \/ HostProvide(p)
    \/ UrlProvide(p)
    \/ CargoProvide(p)
    \/ Install(p)
    \/ UrlFetch(p)
    \/ CargoBuild(p)
    \/ WriterCopy(p)
    \/ UrlVerify(p)
    \/ InstallFinish(p)
    \/ ChainRet(p)
    \/ Return(p)

\* one process makes resolution calls, one after the other
Next == Step("p1")

Spec == Init /\ [][Next]_vars

(* ------------------------------------------------------------------ *)
(* resolve_tool with its configuration: load_config, register_tool       *)
(* ------------------------------------------------------------------ *)

\* one CONFIG_CAPTURE for all threads, as a plain static would be
shared_slot(thread) == "p1"

\* thread_local!: the CONFIG_CAPTURE a thread reads and writes is its own
slot(thread) == thread

\* load_config of main.rs: without a bu.star the default Config, else the file
\* is read, which can fail, and handed to config::load_config
LoadConfigFile(p) ==
    /\ pc[p] = "idle"
    /\ resolved[p] = NoResolution
    /\ loaded[p] = NoLoad
    /\ \/ /\ loaded' = [loaded EXCEPT ![p] = LoadOk(NoTools)]
          /\ pc' = [pc EXCEPT ![p] = "loaded"]
          /\ UNCHANGED content
       \/ /\ loaded' = [loaded EXCEPT ![p] = LoadErr(ReadErrorMsg)]
          /\ pc' = [pc EXCEPT ![p] = "loaded"]
          /\ UNCHANGED content
       \/ /\ \E script \in Scripts : content' = [content EXCEPT ![p] = Some(script)]
          /\ pc' = [pc EXCEPT ![p] = "config"]
          /\ UNCHANGED loaded
    /\ UNCHANGED <<outside, fs, req, idx, last_error, last_from, pres, wres, res, invoked,
                   attempts, ops, cached, capture, rc, pos, eval_res, definition, resolved>>

\* config::load_config up to the preamble: a new Config behind an Rc, which
\* CONFIG_CAPTURE is set to; the preamble is a fixed text that evaluates
LoadConfig(p) ==
    /\ pc[p] = "config"
    /\ rc' = [rc EXCEPT ![p] = NoTools]
    /\ capture' = [capture EXCEPT ![slot(p)] = Some(p)]
    /\ pc' = [pc EXCEPT ![p] = "parse"]
    /\ UNCHANGED <<outside, fs, req, idx, last_error, last_from, pres, wres, res, invoked,
                   attempts, ops, cached, content, pos, eval_res, loaded, definition,
                   resolved>>

\* AstModule::parse of the content: a syntax error anywhere returns the error
\* at once, with `?`
ParseContent(p) ==
    /\ pc[p] = "parse"
    /\ \E script \in content[p] :
          IF \E i \in 1..Len(script) : script[i] = SyntaxError
            THEN /\ loaded' = [loaded EXCEPT ![p] = LoadErr(ConfigContext \o ParseErrorMsg)]
                 /\ pc' = [pc EXCEPT ![p] = "loaded"]
                 /\ UNCHANGED pos
            ELSE /\ pos' = [pos EXCEPT ![p] = 1]
                 /\ pc' = [pc EXCEPT ![p] = "eval"]
                 /\ UNCHANGED loaded
    /\ UNCHANGED <<outside, fs, req, idx, last_error, last_from, pres, wres, res, invoked,
                   attempts, ops, cached, content, capture, rc, eval_res, definition,
                   resolved>>

\* register_tool: the Config CONFIG_CAPTURE of the thread holds gets the
\* definition under its name, in place of the one it had; nothing is kept
\* when CONFIG_CAPTURE is None
register_tool(p, call, strategies) ==
    IF capture[slot(p)] # None
      THEN \E config_rc \in capture[slot(p)] :
              rc' = [rc EXCEPT ![config_rc] =
                       insert(@, call.name, ToolDefinition(call, strategies))]
      ELSE UNCHANGED rc

\* eval_module evaluates the next statement: a call of register_tool fails
\* when strategies is not a list and registers otherwise; the first error
\* ends the evaluation, as the last statement does
EvalStatement(p) ==
    /\ pc[p] = "eval"
    /\ \E script \in content[p] :
          IF pos[p] > Len(script)
            THEN /\ eval_res' = [eval_res EXCEPT ![p] = <<>>]
                 /\ pc' = [pc EXCEPT ![p] = "clear"]
                 /\ UNCHANGED <<rc, pos>>
          ELSE IF script[pos[p]] = EvalError
            THEN /\ eval_res' = [eval_res EXCEPT ![p] = EvalErrorMsg]
                 /\ pc' = [pc EXCEPT ![p] = "clear"]
                 /\ UNCHANGED <<rc, pos>>
          ELSE IF strategies_vec(script[pos[p]].strategies) = None
            THEN /\ eval_res' = [eval_res EXCEPT ![p] = NotAListMsg]
                 /\ pc' = [pc EXCEPT ![p] = "clear"]
                 /\ UNCHANGED <<rc, pos>>
            ELSE /\ \E strategies \in strategies_vec(script[pos[p]].strategies) :
                       register_tool(p, script[pos[p]], strategies)
                 /\ pos' = [pos EXCEPT ![p] = @ + 1]
                 /\ UNCHANGED <<eval_res, pc>>
    /\ UNCHANGED <<outside, fs, req, idx, last_error, last_from, pres, wres, res, invoked,
                   attempts, ops, cached, content, capture, loaded, definition, resolved>>

\* "Clear thread local"
ClearCapture(p) ==
    /\ pc[p] = "clear"
    /\ capture' = [capture EXCEPT ![slot(p)] = None]
    /\ pc' = [pc EXCEPT ![p] = "result"]
    /\ UNCHANGED <<outside, fs, req, idx, last_error, last_from, pres, wres, res, invoked,
                   attempts, ops, cached, content, rc, pos, eval_res, loaded, definition,
                   resolved>>

\* load_config returning a Config with the tools registered although the
\* evaluation failed
LoadReturnsPartial(p) ==
    /\ pc[p] = "result"
    /\ loaded' = [loaded EXCEPT ![p] = LoadOk(rc[p])]
    /\ rc' = [rc EXCEPT ![p] = NoTools]
    /\ eval_res' = [eval_res EXCEPT ![p] = <<>>]
    /\ pc' = [pc EXCEPT ![p] = "loaded"]
    /\ UNCHANGED <<outside, fs, req, idx, last_error, last_from, pres, wres, res, invoked,
                   attempts, ops, cached, content, capture, pos, definition, resolved>>

\* load_config returns the error of the evaluation, or a Config with a clone
\* of the tools registered, and the Rc is dropped; content and pos stay, as
\* the record of what was evaluated, until resolve_tool goes on
LoadReturns(p) ==
    /\ pc[p] = "result"
    /\ loaded' = [loaded EXCEPT ![p] =
          IF eval_res[p] # <<>> THEN LoadErr(ConfigContext \o eval_res[p])
          ELSE LoadOk(rc[p])]
    /\ rc' = [rc EXCEPT ![p] = NoTools]
    /\ eval_res' = [eval_res EXCEPT ![p] = <<>>]
    /\ pc' = [pc EXCEPT ![p] = "loaded"]
    /\ UNCHANGED <<outside, fs, req, idx, last_error, last_from, pres, wres, res, invoked,
                   attempts, ops, cached, content, capture, pos, definition, resolved>>

\* `let config = load_config(&config_path)?;` with an error: resolve_tool
\* returns it
ResolveFails(p) ==
    /\ pc[p] = "loaded"
    /\ ~loaded[p].ok
    /\ resolved' = [resolved EXCEPT ![p] = ResolveErr(loaded[p].err, NoError)]
    /\ pc' = [pc EXCEPT ![p] = "idle"]
    /\ UNCHANGED <<outside, fs, req, idx, last_error, last_from, pres, wres, res, invoked,
                   attempts, ops, cached, config_vars>>

\* with a Config: the version is read, get_provider builds the chain of the
\* tool and provide is called on it
GetProvider(p) ==
    /\ pc[p] = "loaded"
    /\ loaded[p].ok
    /\ \E r \in Requests, offline \in BOOLEAN :
          /\ definition' = [definition EXCEPT ![p] = get(loaded[p].tools, r[1])]
          /\ req' = [req EXCEPT ![p] =
                    [tool |-> r[1], version |-> r[2], offline |-> offline,
                     chain |-> get_provider(definition'[p], r[1])]]
    /\ last_error' = [last_error EXCEPT ![p] = NotFound(req'[p].tool)]
    /\ last_from' = [last_from EXCEPT ![p] = 0]
    /\ idx' = [idx EXCEPT ![p] = 1]
    /\ pc' = [pc EXCEPT ![p] = "loop"]
    /\ content' = [content EXCEPT ![p] = None]
    /\ pos' = [pos EXCEPT ![p] = 0]
    /\ UNCHANGED <<outside, fs, pres, wres, res, invoked, attempts, ops, cached, capture, rc,
                   eval_res, loaded, resolved>>

ConfigStep(p) ==
    \/ LoadConfigFile(p)
    \/ LoadConfig(p)
    \/ ParseContent(p)
    \/ EvalStatement(p)
    \/ ClearCapture(p)
    \/ LoadReturns(p)
    \/ ResolveFails(p)
    \/ GetProvider(p)
    \/ ChainNext(p)
    \/ HostProvide(p)
    \/ UrlProvide(p)
    \/ CargoProvide(p)
    \/ Install(p)
    \/ UrlFetch(p)
    \/ CargoBuild(p)
    \/ WriterCopy(p)
    \/ UrlVerify(p)
    \/ InstallFinish(p)
    \/ ChainRet(p)
    \/ Return(p)

\* one process resolves its tool once, on a cache that starts empty
NextConfig == ConfigStep("p1")

SpecConfig == Init /\ [][NextConfig]_vars

(* ------------------------------------------------------------------ *)
(* config::load_config called by two threads at once                     *)
(* ------------------------------------------------------------------ *)

\* the statements of the contents the threads load
ThreadStatements ==
    {call \in RegisterCalls : call.strategies = None /\ call.url_template # None}
        \cup {SyntaxError, EvalError}

ThreadScripts == UNION {[1..n -> ThreadStatements] : n \in 0..MaxStmts}

\* a thread calls config::load_config(content)
LoadCall(p) ==
    /\ pc[p] = "idle"
    /\ loaded[p] = NoLoad
    /\ \E script \in ThreadScripts : content' = [content EXCEPT ![p] = Some(script)]
    /\ pc' = [pc EXCEPT ![p] = "config"]
    /\ UNCHANGED <<outside, fs, req, idx, last_error, last_from, pres, wres, res, invoked,
                   attempts, ops, cached, capture, rc, pos, eval_res, loaded, definition,
                   resolved>>

ThreadStep(p) ==
    \/ LoadCall(p)
    \/ LoadConfig(p)
    \/ ParseContent(p)
    \/ EvalStatement(p)
    \/ ClearCapture(p)
    \/ LoadReturns(p)

\* the steps of the two threads interleave in every way
NextThreads == \E p \in Procs : ThreadStep(p)

InitThreads ==
    /\ platform = "linux"
    /\ path_env = {}
    /\ Idle
    /\ NoQuery
    /\ NoConfig
    /\ NoDetection

SpecThreads == InitThreads /\ [][NextThreads]_vars

(* ------------------------------------------------------------------ *)
(* Two processes running UrlProvider::provide on one cache root          *)
(* ------------------------------------------------------------------ *)

\* the chains of the two processes: one UrlProvider, with or without a digest
RaceChains == {<<UrlProvider(HttpTemplate, sha256)>> : sha256 \in {None, Some(LowerDigest)}}

\* a process asks for buck2 v1: the same tool and version for both
RaceCall(p) ==
    /\ pc[p] = "idle"
    /\ \E chain \in RaceChains :
          req' = [req EXCEPT ![p] =
                    [tool |-> "buck2", version |-> "v1", offline |-> FALSE, chain |-> chain]]
    /\ last_error' = [last_error EXCEPT ![p] = NotFound(req'[p].tool)]
    /\ last_from' = [last_from EXCEPT ![p] = 0]
    /\ idx' = [idx EXCEPT ![p] = 1]
    /\ pc' = [pc EXCEPT ![p] = "loop"]
    /\ UNCHANGED <<env, fs, pres, wres, res, invoked, attempts, ops, cached>>

\* the steps of one process, up to the return of provide
RaceStep(p) ==
    \/ RaceCall(p)
    \/ ChainNext(p)
    \/ UrlProvide(p)
    \/ Install(p)
    \/ UrlFetch(p)
    \/ WriterCopy(p)
    \/ UrlVerify(p)
    \/ InstallFinish(p)
    \/ ChainRet(p)

\* the processes share the file system and nothing else: their steps interleave
\* in every way
NextRace == \E p \in Procs : RaceStep(p)

InitRace ==
    /\ platform = "linux"
    /\ path_env = {}
    /\ Idle
    /\ NoQuery
    /\ NoConfig
    /\ NoDetection

SpecRace == InitRace /\ [][NextRace]_vars

(* ------------------------------------------------------------------ *)
(* ToolCache::get_tool_path as a function of its arguments               *)
(* ------------------------------------------------------------------ *)

\* tool names ProjectType::tool_name gives
PathTools == {"buck2", "bazel", "cargo", "go", "mvn"}

\* version strings: "latest", or the trimmed content of a version file
PathVersions == {"latest", "v1", "v2", "7.0.0", "2023-10-15", "..", AbsoluteVersion}

\* a caller fixes the arguments it calls get_tool_path with
Ask ==
    /\ query = None
    /\ \E tool_name \in PathTools, version \in PathVersions :
          query' = Some([tool_name |-> tool_name, version |-> version])
    /\ UNCHANGED <<platform, path_env, fs, pc, req, idx, last_error, last_from, pres, wres,
                   res, invoked, attempts, ops, cached, answer, config_vars, resolved,
                   cwd, detected>>

\* cache.get_tool_path(tool_name, version), called up to MaxCalls times
GetToolPath ==
    /\ query # None
    /\ Cardinality(DOMAIN answer) < MaxCalls
    /\ \E q \in query :
          answer' = Append(answer, get_tool_path(platform, q.tool_name, q.version))
    /\ UNCHANGED <<platform, path_env, fs, pc, req, idx, last_error, last_from, pres, wres,
                   res, invoked, attempts, ops, cached, query, config_vars, resolved,
                   cwd, detected>>

InitPath ==
    /\ platform \in Platforms
    /\ path_env = {}
    /\ Idle
    /\ NoQuery
    /\ NoConfig
    /\ NoDetection

NextPath == Ask \/ GetToolPath

SpecPath == InitPath /\ [][NextPath]_vars

(* ------------------------------------------------------------------ *)
(* detect_project_type as a function of the directory                    *)
(* ------------------------------------------------------------------ *)

\* resolve_tool calls detect_project_type on the current directory
Detect ==
    /\ detected = None
    /\ detected' = Some(detect_project_type(cwd))
    /\ UNCHANGED <<platform, path_env, fs, pc, req, idx, last_error, last_from, pres, wres,
                   res, invoked, attempts, ops, cached, query, answer, config_vars, resolved,
                   cwd>>

InitDetect ==
    /\ platform = "linux"
    /\ path_env = {}
    /\ Idle
    /\ NoQuery
    /\ NoConfig
    /\ cwd \in Directories
    /\ detected = None

NextDetect == Detect

SpecDetect == InitDetect /\ [][NextDetect]_vars

(* ------------------------------------------------------------------ *)
(* Properties                                                            *)
(* ------------------------------------------------------------------ *)

\* the provider of a returned invocation, and the URL it resolved
ProviderOf(p, a) == req[p].chain[a.idx]

UrlOf(p, provider) == resolve_url(provider.url_template, req[p].version, platform)

SeqHas(s, x) == \E k \in 1..Len(s) : s[k] = x

\* the returned invocations of p before which no invocation succeeded
FirstOk(p, k) ==
    /\ k \in 1..Len(attempts[p])
    /\ attempts[p][k].res.ok
    /\ \A j \in 1..(k - 1) : ~attempts[p][j].res.ok

AllFailed(p) == \A k \in 1..Len(attempts[p]) : ~attempts[p][k].res.ok

\* C1: when a provider of the chain succeeds, provide returns exactly the path
\* of the first provider that succeeded, and no provider after it is invoked.
C1_FirstSuccessReturned ==
    \A p \in Procs : \A k \in 1..Len(attempts[p]) :
        FirstOk(p, k) =>
            /\ pc[p] = "done"
            /\ res[p] = Ok(attempts[p][k].res.path)
            /\ \A j \in 1..Len(invoked[p]) : invoked[p][j] <= attempts[p][k].idx

\* a call whose first provider succeeded while a second one was declared: the
\* second one was not invoked
C1_Witness ==
    \E p \in Procs :
        /\ pc[p] = "done"
        /\ Len(req[p].chain) = 2
        /\ FirstOk(p, 1)
        /\ invoked[p] = <<1>>

\* C2: when every provider of a non-empty chain fails, provide fails with the
\* error of the last provider, not an earlier one's and not the initial NotFound.
C2_LastErrorReturned ==
    \A p \in Procs :
        (pc[p] = "done" /\ Len(req[p].chain) > 0 /\ AllFailed(p)) =>
            /\ Len(attempts[p]) = Len(req[p].chain)
            /\ attempts[p][Len(attempts[p])].idx = Len(req[p].chain)
            /\ res[p] = Err(attempts[p][Len(attempts[p])].res.err)
            /\ last_from[p] = Len(req[p].chain)

\* both providers failed, with different errors, neither the initial NotFound
C2_Witness ==
    \E p \in Procs :
        /\ pc[p] = "done"
        /\ Len(attempts[p]) = 2
        /\ AllFailed(p)
        /\ attempts[p][1].res.err # attempts[p][2].res.err
        /\ attempts[p][1].res.err.kind = "StrategyFailure"
        /\ res[p].err.kind = "StrategyFailure"

\* C3: provide on a chain with no provider invokes nothing and fails with
\* NotFound carrying the requested tool name.
C3_EmptyChainNotFound ==
    \A p \in Procs :
        (pc[p] # "idle" /\ req[p].chain = <<>>) =>
            /\ invoked[p] = <<>>
            /\ attempts[p] = <<>>
            /\ pc[p] \in {"loop", "done"}
            /\ (pc[p] = "done" => res[p] = Err(NotFound(req[p].tool)))

C3_Witness ==
    \E p \in Procs :
        /\ pc[p] = "done"
        /\ req[p].chain = <<>>
        /\ req[p].tool = "bazel"
        /\ res[p].err = NotFound("bazel")

\* C4: the providers are invoked in declared order, each at most once, the next
\* one only after the one before returned a failure, and never more than n.
C4_InvokedInOrder ==
    \A p \in Procs :
        /\ invoked[p] = [k \in 1..Len(invoked[p]) |-> k]
        /\ Len(invoked[p]) <= Len(req[p].chain)
        /\ Len(attempts[p]) \in {Len(invoked[p]) - 1, Len(invoked[p])}
        /\ \A k \in 1..Len(attempts[p]) : attempts[p][k].idx = k
        /\ \A k \in 1..(Len(invoked[p]) - 1) : ~attempts[p][k].res.ok
        /\ (pc[p] = "done" /\ AllFailed(p) => Len(invoked[p]) = Len(req[p].chain))

C4_Witness ==
    \E p \in Procs :
        /\ pc[p] = "done"
        /\ Len(req[p].chain) = 2
        /\ invoked[p] = <<1, 2>>
        /\ ~attempts[p][1].res.ok

\* p is inside the provider at position idx[p]
InProvider(p) ==
    pc[p] \in {"provide", "install", "writer", "copying", "verify", "written", "ret"}

CacheBacked(provider) == provider.kind \in {"url", "source"}

\* C5: UrlProvider and CargoBuildProvider return get_tool_path at once when the
\* tool is installed as the call begins: no fetch, no build, no checksum, no
\* write into the cache, whatever the offline flag, the template and the digest.
C5_CacheHitReturnsAtOnce ==
    \A p \in Procs :
        /\ \A k \in 1..Len(attempts[p]) :
              LET a == attempts[p][k]
              IN  (CacheBacked(ProviderOf(p, a)) /\ a.cached) =>
                      /\ a.res = Ok(ToolPath(p))
                      /\ a.ops = <<>>
        /\ (InProvider(p) /\ CacheBacked(Cur(p)) /\ cached[p]) =>
              /\ pc[p] \in {"provide", "ret"}
              /\ ops[p] = <<>>
              /\ (pc[p] = "ret" => pres[p] = Ok(ToolPath(p)))

\* an offline call of a download provider whose declared digest matches nothing
\* returned the installed path
C5_Witness ==
    \E p \in Procs : \E k \in 1..Len(attempts[p]) :
        LET a == attempts[p][k]
        IN  /\ ProviderOf(p, a) = UrlProvider(HttpTemplate, Some(WrongDigest))
            /\ req[p].offline
            /\ a.cached
            /\ a.res.ok

\* C6: offline, not installed and a resolved URL that is not file://: UrlProvider
\* fails with a StrategyFailure and issues no network request; a file:// URL is
\* not rejected offline and goes on to the local copy.
C6_OfflineNoNetwork ==
    \A p \in Procs :
        /\ \A k \in 1..Len(attempts[p]) :
              LET a == attempts[p][k]
                  provider == ProviderOf(p, a)
              IN  (provider.kind = "url" /\ req[p].offline /\ ~a.cached) =>
                      IF ~StartsWith(UrlOf(p, provider), "file://")
                        THEN /\ ~a.res.ok
                             /\ a.res.err.kind = "StrategyFailure"
                             /\ a.ops = <<>>
                        ELSE /\ a.res.err # StrategyFailure("UrlProvider", OfflineMsg)
                             /\ Len(a.ops) >= 1
                             /\ a.ops[1] = "create_dir_all"
                             /\ (Len(a.ops) >= 2 => a.ops[2] = "copy")
                             /\ ~SeqHas(a.ops, "get")
        /\ (InProvider(p) /\ Cur(p).kind = "url" /\ req[p].offline) => ~SeqHas(ops[p], "get")

\* an offline call of a download provider was rejected before install, and
\* the host provider after it was tried
C6_Witness ==
    \E p \in Procs :
        /\ req[p].offline
        /\ Len(attempts[p]) = 2
        /\ ProviderOf(p, attempts[p][1]) = UrlProvider(HttpTemplate, None)
        /\ ~attempts[p][1].cached
        /\ attempts[p][1].res = Err(StrategyFailure("UrlProvider", OfflineMsg))
        /\ attempts[p][1].ops = <<>>

\* a UrlProvider invocation that began with the tool not installed, declared a
\* digest and has computed the digest of the file it wrote, as it returns
Verified(p) ==
    /\ pc[p] = "ret"
    /\ Cur(p).kind = "url"
    /\ ~cached[p]
    /\ Cur(p).sha256 # None
    /\ SeqHas(ops[p], "hash")

\* the digest of the file at the tool path, as UrlProvider computes it
FileDigest(p) == HexEncode(Sha256(fs[ToolPath(p)].file))

Declared(p) == CHOOSE expected_hash \in Cur(p).sha256 : TRUE

ChecksumFailure(p) ==
    /\ ~pres[p].ok
    /\ pres[p].err.kind = "StrategyFailure"
    /\ pres[p].err.strategy = "UrlProvider"
    /\ Contains(pres[p].err.msg, "Checksum mismatch")

C8_CaseInsensitiveMatch ==
    \A p \in Procs :
        (Verified(p) /\ EqIgnoreCase(Declared(p), FileDigest(p))) =>
            /\ wres[p] = IoOk
            /\ ~Contains(pres[p].err.msg, "Checksum mismatch")

\* C9: install is not transactional: a writer that created the file and then
\* failed makes install return an error, the file stays, and is_installed is
\* true from then on.
C9_FailedWriteStaysInstalled ==
    \A p \in Procs :
        /\ (pc[p] = "ret" /\ SeqHas(ops[p], "write") /\ ~wres[p].ok) =>
              /\ ~pres[p].ok
              /\ pres[p].err = StrategyFailure(StrategyName(Cur(p)), wres[p].msg)
              /\ Installed(p)
        /\ \A k \in 1..Len(attempts[p]) :
              (SeqHas(attempts[p][k].ops, "write") /\ ~attempts[p][k].res.ok) =>
                  /\ Installed(p)
                  /\ \A j \in (k + 1)..Len(attempts[p]) :
                        CacheBacked(ProviderOf(p, attempts[p][j])) => attempts[p][j].cached

\* a download failed on a checksum mismatch, and the same provider, next in the
\* chain, reported the file it left as the installed tool
C9_Witness ==
    \E p \in Procs :
        /\ Len(attempts[p]) = 2
        /\ ProviderOf(p, attempts[p][1]) = UrlProvider(HttpTemplate, Some(WrongDigest))
        /\ SeqHas(attempts[p][1].ops, "write")
        /\ Contains(attempts[p][1].res.err.msg, "Checksum mismatch")
        /\ ProviderOf(p, attempts[p][2]) = UrlProvider(HttpTemplate, Some(WrongDigest))
        /\ attempts[p][2].cached
        /\ attempts[p][2].res = Ok(ToolPath(p))

WriterOps == {"copy", "get", "decoder", "write", "read", "hash", "tempdir", "cargo"}

\* the order install keeps among the operations of one invocation
InstallOrder(o) ==
    \A k \in 1..Len(o) :
        /\ (o[k] = "create_dir_all" => k = 1)
        /\ (o[k] \in WriterOps => k > 1 /\ o[1] = "create_dir_all")
        /\ (o[k] = "set_permissions" =>
                /\ k = Len(o)
                /\ k > 2
                /\ o[1] = "create_dir_all"
                /\ o[k - 1] \in WriterOps)

\* C10: install creates the parent directories, runs the writer on get_tool_path,
\* then (POSIX) sets mode 0o755, and that only if the writer succeeded; on
\* success it returns get_tool_path and is_installed is true.
C10_InstallOrder ==
    \A p \in Procs :
        /\ InstallOrder(ops[p])
        /\ \A k \in 1..Len(attempts[p]) : InstallOrder(attempts[p][k].ops)
        /\ (pc[p] \in {"writer", "copying", "verify", "written"} => fs[ToolPath(p)].dir)
        /\ (InProvider(p) /\ SeqHas(ops[p], "set_permissions")) =>
              /\ pc[p] = "ret"
              /\ wres[p] = IoOk
              /\ platform # "windows"
        /\ (pc[p] = "ret" /\ ops[p] # <<>> /\ pres[p].ok) =>
              /\ wres[p] = IoOk
              /\ pres[p].path = get_tool_path(platform, req[p].tool, req[p].version)
              /\ Installed(p)
              /\ fs[ToolPath(p)].dir
              /\ (platform # "windows" =>
                    /\ ops[p][Len(ops[p])] = "set_permissions"
                    /\ fs[ToolPath(p)].mode = ModeExec)

\* a build from source on a POSIX target went through install to success
C10_Witness ==
    \E p \in Procs :
        /\ pc[p] = "ret"
        /\ platform = "linux"
        /\ ops[p] = <<"create_dir_all", "tempdir", "cargo", "copy", "write", "set_permissions">>
        /\ pres[p] = Ok(ToolPath(p))
        /\ fs[ToolPath(p)].mode = ModeExec

\* C11: every call of get_tool_path returns <cache-root>/<tool>/<version>/<tool>,
\* with the extension exe on Windows and none elsewhere; calls with the same
\* arguments return the same path, and the cache directory is as it was
C11_PathLayout ==
    \A q \in query : \A i \in DOMAIN answer :
        /\ answer[i].dirs = <<CacheRoot, q.tool_name, q.version>>
        /\ answer[i].name = q.tool_name
        /\ answer[i].ext = (IF platform = "windows" THEN "exe" ELSE "")
        /\ answer[i] = answer[1]
        /\ \A path \in DOMAIN fs : fs[path] = NoFile

\* the strategies of a definition that get_tool_provider has a provider for
Kept(def) ==
    SelectSeq(def.strategies,
              LAMBDA st : \/ st = "host"
                          \/ st = "url" /\ def.url_template # None
                          \/ st = "source" /\ def.git_url # None)

\* C12: with a ToolDefinition for the tool, the chain has one provider per
\* strategy that is "host", "url" with a url_template or "source" with a
\* git_url, in the order of the strategies: HostProvider, the UrlProvider of
\* the template and the sha256, the CargoBuildProvider of the git_url with the
\* tool name as binary name; the other strategies are left out, without error
C12_ChainOfDefinition ==
    \A p \in Procs : \A def \in definition[p] :
        req[p] # NoRequest =>
            LET chain == req[p].chain
                kept == Kept(def)
            IN  /\ def = loaded[p].tools[req[p].tool]
                /\ Len(chain) = Len(kept)
                /\ \A i \in 1..Len(kept) :
                      /\ kept[i] = "host" => chain[i] = HostProvider
                      /\ kept[i] = "url" =>
                            /\ chain[i].kind = "url"
                            /\ def.url_template = Some(chain[i].url_template)
                            /\ chain[i].sha256 = def.sha256
                      /\ kept[i] = "source" =>
                            /\ chain[i].kind = "source"
                            /\ def.git_url = Some(chain[i].git_url)
                            /\ chain[i].bin_name = req[p].tool

\* a definition with the strategies url, host and a template is resolved, and
\* its UrlProvider fails before its HostProvider is invoked
C12_Witness ==
    \E def \in definition["p1"] :
        /\ def.strategies = <<"url", "host">>
        /\ def.sha256 = Some(LowerDigest)
        /\ Len(req["p1"].chain) = 2
        /\ invoked["p1"] = <<1, 2>>

\* C13: without a ToolDefinition for the tool, the Config of no bu.star
\* included, the chain is HostProvider alone
C13_HostAlone ==
    \A p \in Procs :
        (req[p] # NoRequest /\ req[p].tool \notin DOMAIN loaded[p].tools) =>
            /\ definition[p] = None
            /\ req[p].chain = <<HostProvider>>
            /\ \A k \in 1..Len(attempts[p]) : ProviderOf(p, attempts[p][k]) = HostProvider

\* a bu.star that registers another tool only: HostProvider was the one
\* provider invoked
C13_Witness ==
    /\ DOMAIN loaded["p1"].tools = {"bazel"}
    /\ req["p1"].tool = "buck2"
    /\ pc["p1"] = "done"
    /\ Len(attempts["p1"]) = 1

\* a statement whose parsing or evaluation fails
Fails(stmt) ==
    \/ stmt = SyntaxError
    \/ stmt = EvalError
    \/ stmt.kind = "register_tool" /\ stmt.strategies = Some(StringValue)

\* the last statement of a script that registers a name
LastOf(script, name) ==
    CHOOSE i \in 1..Len(script) :
        /\ script[i].name = name
        /\ \A j \in (i + 1)..Len(script) : script[j].name # name

\* C14: a bu.star none of whose statements fails, registrations of one name
\* more than once included, loads without error, and the Config has one entry
\* per name registered, holding the arguments of the last call for that name
C14_LastRegistrationWins ==
    \A p \in Procs : \A script \in content[p] :
        pc[p] = "loaded" =>
            /\ (\A i \in 1..Len(script) : ~Fails(script[i])) => loaded[p].ok
            /\ loaded[p].ok =>
                  /\ DOMAIN loaded[p].tools = {script[i].name : i \in 1..Len(script)}
                  /\ \A name \in DOMAIN loaded[p].tools :
                        LET def == loaded[p].tools[name]
                            call == script[LastOf(script, name)]
                        IN  /\ def.name = name
                            /\ def.version = call.version
                            /\ def.url_template = call.url_template
                            /\ def.sha256 = call.sha256
                            /\ def.git_url = call.git_url
                            /\ def.strategies =
                                  (IF call.strategies = None THEN <<"host", "url">>
                                   ELSE (CHOOSE v \in call.strategies : TRUE).items)

\* a bu.star registering buck2 twice, with different arguments, was loaded
C14_Witness ==
    \E script \in content["p1"] :
        /\ pc["p1"] = "loaded"
        /\ loaded["p1"].ok
        /\ Len(script) = 2
        /\ script[1].name = "buck2"
        /\ script[2].name = "buck2"
        /\ script[1].url_template # script[2].url_template
        /\ script[1].strategies # script[2].strategies

\* C15: when a statement of bu.star fails to parse or to evaluate, load_config
\* returns an error and no Config, whatever was registered before the failure,
\* and resolve_tool returns that error: no chain is built, no provider is
\* invoked and the cache is not touched
C15_FailedLoadNoConfig ==
    \A p \in Procs :
        /\ \A script \in content[p] :
              (pc[p] \in {"loaded", "idle"} /\ \E i \in 1..Len(script) : Fails(script[i]))
                  => (~loaded[p].ok /\ loaded[p].tools = NoTools /\ loaded[p].err # <<>>)
        /\ (loaded[p] # NoLoad /\ ~loaded[p].ok) =>
              /\ pc[p] \in {"loaded", "idle"}
              /\ req[p] = NoRequest
              /\ definition[p] = None
              /\ invoked[p] = <<>>
              /\ attempts[p] = <<>>
              /\ ops[p] = <<>>
              /\ \A path \in DOMAIN fs : fs[path] = NoFile
              /\ pc[p] = "idle" =>
                    /\ ~resolved[p].ok
                    /\ resolved[p].context = loaded[p].err
                    /\ resolved[p].tool_path = NoPath

\* the second statement failed to evaluate after the first registered a tool,
\* and resolve_tool returned the error
C15_Witness ==
    \E script \in content["p1"] :
        /\ pc["p1"] = "idle"
        /\ script[1].kind = "register_tool"
        /\ pos["p1"] = 2
        /\ resolved["p1"] = ResolveErr(ConfigContext \o EvalErrorMsg, NoError)

\* C16: CargoBuildProvider invoked with the tool not installed and no cargo on
\* the host fails at once with StrategyFailure("CargoBuildProvider", "Cargo not
\* found"): install is not called, nothing is built, no directory and no file
\* is created
C16_NoCargoFailsAtOnce ==
    \A p \in Procs :
        /\ \A k \in 1..Len(attempts[p]) :
              LET a == attempts[p][k]
              IN  (ProviderOf(p, a).kind = "source" /\ ~a.cached /\ "cargo" \notin path_env) =>
                      /\ a.res = Err(StrategyFailure("CargoBuildProvider", <<"Cargo not found">>))
                      /\ a.ops = <<>>
        /\ (InProvider(p) /\ Cur(p).kind = "source" /\ ~cached[p] /\ "cargo" \notin path_env) =>
              /\ pc[p] \in {"provide", "ret"}
              /\ ops[p] = <<>>
              /\ ~exists(fs, ToolPath(p))
              /\ (pc[p] = "ret" =>
                    pres[p] = Err(StrategyFailure("CargoBuildProvider", <<"Cargo not found">>)))

\* the first provider of a chain is a CargoBuildProvider, the cache entry and
\* its directory are absent, the host has no cargo, and the provider returned
C16_Witness ==
    /\ Len(attempts["p1"]) = 1
    /\ ProviderOf("p1", attempts["p1"][1]).kind = "source"
    /\ ~attempts["p1"][1].cached
    /\ "cargo" \notin path_env
    /\ ~attempts["p1"][1].res.ok
    /\ fs[ToolPath("p1")] = NoFile

\* C17: when every provider of the chain was invoked and failed, the error
\* resolve_tool returns wraps the failure of the last provider invoked, in a
\* context that names the tool and the version
C17_LastFailureAnnotated ==
    [][\A p \in Procs :
          (pc[p] = "done" /\ pc'[p] = "idle" /\ ~res[p].ok /\ attempts[p] # <<>>) =>
              /\ Len(attempts[p]) = Len(req[p].chain)
              /\ ~resolved'[p].ok
              /\ resolved'[p].source = attempts[p][Len(attempts[p])].res.err
              /\ resolved'[p].context =
                    <<"Failed to provide tool '", req[p].tool, "' version '",
                      req[p].version, "'">>]_vars

\* resolve_tool returned the offline failure of a UrlProvider for buck2 v1
C17_Witness ==
    /\ pc["p1"] = "idle"
    /\ resolved["p1"].source = StrategyFailure("UrlProvider", OfflineMsg)
    /\ Contains(resolved["p1"].context, "buck2")
    /\ Contains(resolved["p1"].context, "v1")

\* C18: a definition with the strategies url, host and a template that is not
\* a file:// URL, resolved offline with the cache entry absent: the UrlProvider
\* fails with the offline StrategyFailure and no network request, HostProvider
\* is invoked next, and the call returns what HostProvider alone returns: the
\* path of the tool found on the host, or NotFound(tool)
C18_OfflineFallsBackToHost ==
    \A p \in Procs : \A def \in definition[p] : \A template \in def.url_template :
        (/\ def.strategies = <<"url", "host">>
         /\ ~StartsWith(resolve_url(template, req[p].version, platform), "file://")
         /\ req[p].offline
         /\ pc[p] = "done"
         /\ ~attempts[p][1].cached) =>
            /\ Len(attempts[p]) = 2
            /\ ProviderOf(p, attempts[p][1]).kind = "url"
            /\ attempts[p][1].res = Err(StrategyFailure("UrlProvider", OfflineMsg))
            /\ attempts[p][1].ops = <<>>
            /\ ProviderOf(p, attempts[p][2]) = HostProvider
            /\ res[p] = attempts[p][2].res
            /\ res[p] = (IF req[p].tool \in path_env
                           THEN Ok(MkPath(<<"/usr/bin">>, req[p].tool, ""))
                           ELSE Err(NotFound(req[p].tool)))

\* the tool is not on the host either: the call failed with NotFound
C18_Witness ==
    \E def \in definition["p1"] :
        /\ def.strategies = <<"url", "host">>
        /\ def.url_template = Some(HttpTemplate)
        /\ req["p1"].offline
        /\ pc["p1"] = "done"
        /\ Len(attempts["p1"]) = 2
        /\ res["p1"] = Err(NotFound("buck2"))

\* the detection order of the documentation of detect_project_type: each
\* project type with its marker files
DocumentedOrder ==
    << <<"Buck2", {<<".buckconfig">>, <<"BUCK">>}>>,
       <<"Bazel", {<<"WORKSPACE">>, <<"WORKSPACE.bazel">>, <<"MODULE.bazel">>}>>,
       <<"Cargo", {<<"Cargo.toml">>}>>,
       <<"Go", {<<"go.mod">>}>>,
       <<"Zig", {<<"build.zig">>}>>,
       <<"Maven", {<<"pom.xml">>}>>,
       <<"Gradle", {<<"build.gradle">>, <<"build.gradle.kts">>}>>,
       <<"Bun", {<<"bun.lockb">>}>>,
       <<"Pnpm", {<<"pnpm-lock.yaml">>}>>,
       <<"Yarn", {<<"yarn.lock">>}>>,
       <<"Deno", {<<"deno.json">>, <<"deno.jsonc">>}>>,
       <<"Npm", {<<"package.json">>}>>,
       <<"Uv", {<<"uv.lock">>}>>,
       <<"Poetry", {<<"poetry.lock">>}>>,
       <<"Pip", {<<"requirements.txt">>, <<"pyproject.toml">>}>>,
       <<"Dotnet", {<<"app", ".csproj">>, <<"app", ".fsproj">>, <<"app", ".sln">>}>>,
       <<"Swift", {<<"Package.swift">>}>>,
       <<"Bundler", {<<"Gemfile">>}>>,
       <<"Mix", {<<"mix.exs">>}>>,
       <<"Composer", {<<"composer.json">>}>>,
       <<"Just", {<<"justfile">>, <<".justfile">>}>>,
       <<"Cmake", {<<"CMakeLists.txt">>}>>,
       <<"Make", {<<"Makefile">>, <<"makefile">>}>> >>

\* the positions of the documented order with a marker in the directory
Marked(entries) ==
    {i \in 1..Len(DocumentedOrder) : DocumentedOrder[i][2] \cap entries # {}}

\* C19: detect_project_type returns the type of the first position of the
\* documented order that has a marker in the directory, and Unknown exactly
\* when no position has one
C19_DocumentedOrder ==
    \A type \in detected :
        IF Marked(cwd) = {} THEN type = "Unknown"
        ELSE type = DocumentedOrder[CHOOSE i \in Marked(cwd) : \A j \in Marked(cwd) : i <= j][1]

\* C20: calls of UrlProvider::provide for one (tool, version), with a declared
\* sha256 that the artifact of the URL does not have, on a cache where the
\* tool was not installed before the first of them, which reported the
\* checksum mismatch: none returns a path, each fails with a StrategyFailure
\* of UrlProvider
C20_MismatchNeverSucceeds ==
    \A p \in Procs :
        (/\ attempts[p] # <<>>
         /\ ~attempts[p][1].cached
         /\ Contains(attempts[p][1].res.err.msg, "Checksum mismatch")
         /\ \A i \in 1..Len(req[p].chain) :
               /\ req[p].chain[i].kind = "url"
               /\ req[p].chain[i].sha256 = Some(WrongDigest)) =>
            \A k \in 1..Len(attempts[p]) :
                /\ ~attempts[p][k].res.ok
                /\ attempts[p][k].res.err.kind = "StrategyFailure"
                /\ attempts[p][k].res.err.strategy = "UrlProvider"

\* C21: no step of a provide call removes a cache entry: a tool path that
\* exists before a step of HostProvider, UrlProvider, CargoBuildProvider or
\* ChainProvider exists after it, whether the call succeeds or fails
C21_EntriesStay ==
    [][\A r \in Requests :
          is_installed(fs, platform, r[1], r[2]) => is_installed(fs', platform, r[1], r[2])]_vars

\* a call that began with the tool installed failed, and the tool is installed
C21_Witness ==
    /\ pc["p1"] = "done"
    /\ ~res["p1"].ok
    /\ attempts["p1"] # <<>>
    /\ \A k \in 1..Len(attempts["p1"]) : attempts["p1"][k].cached
    /\ Installed("p1")

\* C22: once load_config has returned, with a Config or with an error,
\* CONFIG_CAPTURE of the thread is None
C22_CaptureCleared ==
    \A p \in Procs :
        loaded[p] # NoLoad => capture[slot(p)] = None

\* C23: with two threads loading at once, the Config behind the Rc of a load
\* holds the names its own content has registered so far and no other, and
\* the Config a load returns holds, for each name of its own content, the
\* arguments of the content's last call for it
C23_NoInterference ==
    \A p \in Procs : \A script \in content[p] :
        /\ pc[p] \in {"eval", "clear", "result"} =>
              DOMAIN rc[p] = {script[i].name : i \in 1..(pos[p] - 1)}
        /\ (pc[p] = "loaded" /\ loaded[p].ok) =>
              /\ DOMAIN loaded[p].tools = {script[i].name : i \in 1..Len(script)}
              /\ \A name \in DOMAIN loaded[p].tools :
                    loaded[p].tools[name] =
                        ToolDefinition(script[LastOf(script, name)], <<"host", "url">>)

\* both threads are evaluating, each has registered one tool, another one
C23_Witness ==
    /\ pc["p1"] = "eval"
    /\ pc["p2"] = "eval"
    /\ DOMAIN rc["p1"] = {"buck2"}
    /\ DOMAIN rc["p2"] = {"bazel"}

\* C24: two processes running UrlProvider.provide for the same tool and version
\* on one cache root are not serialized: a process that is inside provide can
\* always take its next step, whatever the other process is doing, and when a
\* process returns the cached path without writing, the file it found was
\* written by the other process
C24_NotSerialized ==
    \A p \in Procs :
        /\ pc[p] \notin {"idle", "done"} => ENABLED RaceStep(p)
        /\ (pc[p] = "ret" /\ pres[p].ok /\ ops[p] = <<>>) =>
               \E q \in Procs \ {p} : SeqHas(ops[q], "write")

\* both processes passed is_installed and both wrote the target file
C24_Witness ==
    /\ pc["p1"] = "verify" /\ pc["p2"] = "verify"
    /\ SeqHas(ops["p1"], "write") /\ SeqHas(ops["p2"], "write")
    /\ fs[ToolPath("p1")].file = Artifact

\* C25: HostProvider.provide depends on the tool name and the search path only:
\* whatever the version, the offline flag and the cache hold, its step returns
\* the path found on the search path, or NotFound(tool) when the tool is not
\* there, and it leaves the cache as it was and performs no operation on it
C25_HostIgnoresVersionAndCache ==
    [][\A p \in Procs :
          (pc[p] = "provide" /\ Cur(p).kind = "host") =>
              /\ pc'[p] = "ret"
              /\ pres'[p] = IF req[p].tool \in path_env
                              THEN Ok(WhichPath(req[p].tool))
                              ELSE Err(NotFound(req[p].tool))
              /\ fs' = fs
              /\ ops'[p] = <<>>]_vars

\* HostProvider returned the path of the search path to an offline caller while
\* the cache held the tool at the asked version
C25_Witness ==
    \E p \in Procs :
        /\ pc[p] = "ret"
        /\ Cur(p).kind = "host"
        /\ req[p].offline
        /\ Installed(p)
        /\ pres[p] = Ok(WhichPath(req[p].tool))
        /\ pres[p].path # ToolPath(p)

\* C26: when the build of CargoBuildProvider exits with a failure, or exits
\* successfully without the binary at the expected place, provide fails with
\* StrategyFailure("CargoBuildProvider", ..), the messages of the two cases
\* differ, nothing was written at the tool path and is_installed is still false
C26_BuildFailuresLeaveNoFile ==
    \A p \in Procs :
        LET failed == CargoInstallFailedMsg
            missing == BinaryNotFoundMsg(Cur(p).bin_name)
        IN  (/\ pc[p] = "ret"
             /\ Cur(p).kind = "source"
             /\ ~pres[p].ok
             /\ pres[p].err.msg \in {failed, missing}) =>
                /\ failed # missing
                /\ pres[p].err = StrategyFailure("CargoBuildProvider", pres[p].err.msg)
                /\ SeqHas(ops[p], "cargo")
                /\ ~SeqHas(ops[p], "write")
                /\ fs[ToolPath(p)].file = "absent"
                /\ ~Installed(p)

\* the build exited successfully, the binary was not where it was expected, and
\* provide returned the failure
C26_Witness ==
    \E p \in Procs :
        /\ pc[p] = "ret"
        /\ Cur(p).kind = "source"
        /\ pres[p] = Err(StrategyFailure("CargoBuildProvider",
                                         BinaryNotFoundMsg(Cur(p).bin_name)))
        /\ fs[ToolPath(p)].dir
        /\ ~Installed(p)

\* C27: for every tool name and version string get_tool_path returns a path
\* under the cache root whose final component is the tool name, with the
\* extension exe on Windows
C27_UnderCacheRoot ==
    \A q \in query : \A i \in DOMAIN answer :
        /\ Len(answer[i].dirs) >= 1
        /\ answer[i].dirs[1] = CacheRoot
        /\ answer[i].name = q.tool_name
        /\ answer[i].ext = (IF platform = "windows" THEN "exe" ELSE "")

\* C28: UrlProvider.provide called offline with a URL that is not file://, for
\* a tool that is not installed, fails in one step that leaves the cache as it
\* was: install is not entered, no parent directory is created and
\* is_installed is the same before and after
C28_OfflineLeavesCache ==
    [][\A p \in Procs :
          (/\ pc[p] = "provide"
           /\ Cur(p).kind = "url"
           /\ req[p].offline
           /\ ~StartsWith(UrlOf(p, Cur(p)), "file://")
           /\ ~Installed(p)) =>
              /\ pc'[p] = "ret"
              /\ ~pres'[p].ok
              /\ fs' = fs
              /\ ops'[p] = <<>>
              /\ \A r \in Requests :
                    is_installed(fs', platform, r[1], r[2])
                       = is_installed(fs, platform, r[1], r[2])]_vars

\* the offline call failed and the directory of the tool path does not exist
C28_Witness ==
    \E p \in Procs :
        /\ pc[p] = "ret"
        /\ Cur(p).kind = "url"
        /\ req[p].offline
        /\ ~StartsWith(UrlOf(p, Cur(p)), "file://")
        /\ pres[p] = Err(StrategyFailure("UrlProvider", OfflineMsg))
        /\ ~fs[ToolPath(p)].dir
        /\ ~Installed(p)

\* C29: every failure of UrlProvider.provide is StrategyFailure("UrlProvider",
\* message), whatever failed: the offline test, the transport, the status of
\* the response, the directory creation, the copy, the checksum or the
\* permission setting; it is never Io, Network or NotFound
C29_UrlFailuresAreStrategyFailures ==
    \A p \in Procs :
        /\ (pc[p] = "ret" /\ Cur(p).kind = "url" /\ ~pres[p].ok) =>
               pres[p].err = StrategyFailure("UrlProvider", pres[p].err.msg)
        /\ \A k \in 1..Len(attempts[p]) :
               LET a == attempts[p][k]
               IN  (ProviderOf(p, a).kind = "url" /\ ~a.res.ok) =>
                      /\ a.res.err.kind = "StrategyFailure"
                      /\ a.res.err.strategy = "UrlProvider"

\* create_dir_all failed inside install, a local I/O error, and UrlProvider
\* returned it
C29_Witness ==
    \E p \in Procs :
        /\ pc[p] = "ret"
        /\ Cur(p).kind = "url"
        /\ ops[p] = <<"create_dir_all">>
        /\ pres[p] = Err(StrategyFailure("UrlProvider", OsError))

\* C30: when the tool has a ToolDefinition none of whose strategies gives a
\* provider (an unknown name, url without a template, source without a git
\* URL, or an empty list), get_tool_provider still returns a chain, an empty
\* one: no provider is invoked, resolution fails with NotFound(tool) and the
\* HostProvider fallback is not used, the tool being on the search path or not
C30_EmptyChainNoFallback ==
    \A p \in Procs : \A def \in definition[p] :
        (req[p] # NoRequest /\ Kept(def) = <<>>) =>
            /\ req[p].chain = <<>>
            /\ invoked[p] = <<>>
            /\ attempts[p] = <<>>
            /\ pc[p] \in {"loop", "done"}
            /\ pc[p] = "done" => res[p] = Err(NotFound(req[p].tool))

\* the definition lists url alone and has no template, the tool is on the
\* search path, and the resolution failed with NotFound
C30_Witness ==
    \E def \in definition["p1"] :
        /\ def.strategies = <<"url">>
        /\ def.url_template = None
        /\ req["p1"].tool \in path_env
        /\ pc["p1"] = "done"
        /\ res["p1"] = Err(NotFound(req["p1"].tool))

====
